---- MODULE Spec2Model ----
(***************************************************************************)
(* slack-log2md: conversion of an exported Slack workspace (channels.json, *)
(* users.json, one directory of message JSON files per channel) to        *)
(* Markdown documents plus one index.md per channel.                       *)
(*                                                                         *)
(* Strings are sequences of one-character strings.  A document is the     *)
(* sequence of its newline-terminated lines.                               *)
(***************************************************************************)
EXTENDS Integers, Sequences, FiniteSets, TLC

\* ------------------------------------------------------------------ bounds
MaxChannels == 2     \* channel directories of a workspace
MaxFiles == 2        \* items of one channel directory
MaxMsgs == 2         \* messages of one channel directory, over its files
MaxRenderSize == 4   \* messages plus body fragments of one call of messagesToMarkdown

\* ----------------------------------------------------------------- strings
\* UTF-16 code units of the characters that occur in file names; JavaScript's
\* < on strings compares code units.
Code ==
  (" " :> 32) @@ ("-" :> 45) @@ ("." :> 46) @@ ("/" :> 47) @@
  ("0" :> 48) @@ ("1" :> 49) @@ ("2" :> 50) @@ ("3" :> 51) @@ ("4" :> 52) @@
  ("5" :> 53) @@ ("6" :> 54) @@ ("7" :> 55) @@ ("8" :> 56) @@ ("9" :> 57) @@
  ("d" :> 100) @@ ("e" :> 101) @@ ("g" :> 103) @@ ("i" :> 105) @@
  ("j" :> 106) @@ ("n" :> 110) @@ ("o" :> 111) @@ ("r" :> 114) @@
  ("s" :> 115) @@ ("x" :> 120)

\* a < b on JavaScript strings
RECURSIVE StrLess(_, _)
StrLess(a, b) ==
  IF b = <<>> THEN FALSE
  ELSE IF a = <<>> THEN TRUE
  ELSE IF Head(a) = Head(b) THEN StrLess(Tail(a), Tail(b))
  ELSE Code[Head(a)] < Code[Head(b)]

\* item.endsWith(suffix)
EndsWith(s, suffix) ==
  /\ Len(s) >= Len(suffix)
  /\ SubSeq(s, Len(s) - Len(suffix) + 1, Len(s)) = suffix

DotJson == <<".", "j", "s", "o", "n">>
DotMd == <<".", "m", "d">>

\* path.join(dir, item)
Join(dir, item) == dir \o <<"/">> \o item

\* the index of the last "/" of p, 0 if none
RECURSIVE LastSlash(_, _)
LastSlash(p, i) ==
  IF i = 0 THEN 0 ELSE IF p[i] = "/" THEN i ELSE LastSlash(p, i - 1)

\* path.basename(p) and path.basename(p, ext)
Basename(p) == SubSeq(p, LastSlash(p, Len(p)) + 1, Len(p))
BasenameExt(p, ext) ==
  LET b == Basename(p)
  IN IF Len(b) > Len(ext) /\ EndsWith(b, ext)
     THEN SubSeq(b, 1, Len(b) - Len(ext))
     ELSE b

\* the comparator (a, b) => (a === b ? 0 : a < b ? 1 : -1)
DescCompare(a, b) == IF a = b THEN 0 ELSE IF StrLess(a, b) THEN 1 ELSE -1

\* Array.prototype.sort with the comparator above (a stable sort): insertion
\* of each element, left to right, after the elements it does not precede
RECURSIVE InsertSorted(_, _)
InsertSorted(x, s) ==
  IF s = <<>> THEN <<x>>
  ELSE IF DescCompare(x, Head(s)) < 0 THEN <<x>> \o s
  ELSE <<Head(s)>> \o InsertSorted(x, Tail(s))

RECURSIVE SortDesc(_)
SortDesc(s) ==
  IF s = <<>> THEN <<>>
  ELSE InsertSorted(s[Len(s)], SortDesc(SubSeq(s, 1, Len(s) - 1)))

\* --------------------------------------------------------------- entities
\* Message: { userID, timeStamp (seconds since the epoch, UTC), text, subtype };
\* subtype <<>> is an absent subtype.
ChannelJoin == <<"c", "h", "a", "n", "n", "e", "l", "_", "j", "o", "i", "n">>
BotMessage == <<"b", "o", "t">>
NoSubtype == <<>>

U1 == <<"U", "1">>
U2 == <<"U", "2">>
U9 == <<"U", "9">>
C1 == <<"C", "1">>
C9 == <<"C", "9">>

\* the id-keyed Map of users.json: U1 has a display name and an avatar, U2 has
\* neither, U9 is in no record
users ==
  (U1 :> [name |-> <<"a", "l">>, displayName |-> <<"A", "l">>,
          avatarURL |-> <<"a", ".", "p", "n", "g">>]) @@
  (U2 :> [name |-> <<"b", "o">>, displayName |-> <<>>, avatarURL |-> <<>>])

\* the id-keyed Map of channels.json: C9 is in no record
channels == (C1 :> [name |-> <<"g", "e", "n">>])

\* --------------------------------------------------------------- metadata
DigitChar == <<"0", "1", "2", "3", "4", "5", "6", "7", "8", "9">>
Pad2(n) == <<DigitChar[((n \div 10) % 10) + 1], DigitChar[(n % 10) + 1]>>
Pad4(n) == Pad2(n \div 100) \o Pad2(n % 100)

\* tsToDate: the UTC calendar date and time of day of a timestamp
tsToDate(ts) ==
  LET z == (ts \div 86400) + 719468
      era == z \div 146097
      doe == z - era * 146097
      yoe == (doe - doe \div 1460 + doe \div 36524 - doe \div 146096) \div 365
      doy == doe - (365 * yoe + yoe \div 4 - yoe \div 100)
      mp == (5 * doy + 2) \div 153
      m == IF mp < 10 THEN mp + 3 ELSE mp - 9
  IN [year |-> yoe + era * 400 + (IF m <= 2 THEN 1 ELSE 0),
      month |-> m,
      day |-> doy - (153 * mp + 2) \div 5 + 1,
      hours |-> (ts % 86400) \div 3600,
      minutes |-> (ts % 3600) \div 60]

\* formatDate(date, 'YYYY-MM-DD', true)
formatDate(d) == Pad4(d.year) \o <<"-">> \o Pad2(d.month) \o <<"-">> \o Pad2(d.day)

\* formatDate(date, 'HH:mm', true)
formatTime(d) == Pad2(d.hours) \o <<":">> \o Pad2(d.minutes)

\* getMetadata(message, users): { time, imageURL, username }
getMetadata(message, us) ==
  LET known == message.userID \in DOMAIN us
      user == us[message.userID]
  IN [time |-> formatTime(tsToDate(message.timeStamp)),
      imageURL |-> IF known THEN user.avatarURL ELSE <<>>,
      username |-> IF ~known THEN message.userID
                   ELSE IF user.displayName # <<>> THEN user.displayName
                   ELSE user.name]

\* --------------------------------------------------------------- markdown
\* the index of the ">" that closes a token opened before position i: the
\* first ">" at or after i with no line terminator before it ("." of the
\* regular expressions matches no "\n"), 0 if there is none
RECURSIVE CloseAt(_, _)
CloseAt(s, i) ==
  IF i > Len(s) \/ s[i] = "\n" THEN 0
  ELSE IF s[i] = ">" THEN i
  ELSE CloseAt(s, i + 1)

\* the character U+0060 of inline code, which a TLA+ string cannot hold
Backquote == "U+0060"

InlineCode(sigil, name) == <<Backquote, sigil>> \o name \o <<Backquote>>

\* the strings a capture group of a match in s can hold
Captures(s) == {SubSeq(s, a, b) : a \in 1..(Len(s) + 1), b \in 0..Len(s)}

\* the replacement callback of /<@(.*?)>/g, as the function of its capture $1
MentionReplacement(s, username, us) ==
  [id \in Captures(s) |->
     IF id \in DOMAIN us THEN InlineCode("@", username) ELSE InlineCode("@", id)]

\* the replacement callback of /<#(.*?)>/g, as the function of its capture $1
ChannelReplacement(s, chs) ==
  [id \in Captures(s) |->
     IF id \in DOMAIN chs THEN InlineCode("#", chs[id].name) ELSE InlineCode("@", id)]

\* s.replace(/<X(.*?)>/g, callback) from position i on, X the character sigil:
\* matches are found left to right, the capture is the shortest one, and the
\* search goes on after the match
RECURSIVE ReplaceAll(_, _, _, _)
ReplaceAll(s, i, sigil, callback) ==
  IF i > Len(s) THEN <<>>
  ELSE LET j == IF i < Len(s) /\ s[i] = "<" /\ s[i + 1] = sigil
                THEN CloseAt(s, i + 2) ELSE 0
       IN IF j # 0
          THEN callback[SubSeq(s, i + 2, j - 1)] \o ReplaceAll(s, j + 1, sigil, callback)
          ELSE <<s[i]>> \o ReplaceAll(s, i + 1, sigil, callback)

\* body.replace(/\n/g, '<br>')
RECURSIVE ReplaceLineBreaks(_)
ReplaceLineBreaks(s) ==
  IF s = <<>> THEN <<>>
  ELSE (IF Head(s) = "\n" THEN <<"<", "b", "r", ">">> ELSE <<Head(s)>>)
         \o ReplaceLineBreaks(Tail(s))

createBody(message, username, chs, us) ==
  LET mentioned == ReplaceAll(message.text, 1, "@",
                              MentionReplacement(message.text, username, us))
      referenced == ReplaceAll(mentioned, 1, "#", ChannelReplacement(mentioned, chs))
  IN ReplaceLineBreaks(referenced)

\* `|${time}|${image}|${username}|${body}|\n`, as a line
RowOf(meta, body) ==
  LET image == IF meta.imageURL = <<>> THEN <<>>
               ELSE <<"!", "[", "]", "(">> \o meta.imageURL \o <<")">>
  IN <<"|">> \o meta.time \o <<"|">> \o image \o <<"|">> \o meta.username
       \o <<"|">> \o body \o <<"|">>

\* one pass of the loop of messagesToMarkdown: the row of one message
Row(message, chs, us) ==
  LET meta == getMetadata(message, us)
  IN RowOf(meta, createBody(message, meta.username, chs, us))

\* messagesToMarkdown with `md = row + md`
RECURSIVE messagesToMarkdownPrepending(_, _, _)
messagesToMarkdownPrepending(messages, chs, us) ==
  IF messages = <<>> THEN <<>>
  ELSE messagesToMarkdownPrepending(Tail(messages), chs, us)
         \o <<Row(Head(messages), chs, us)>>

\* messagesToMarkdown: md starts as '' and gets one row per message
RECURSIVE messagesToMarkdown(_, _, _)
messagesToMarkdown(messages, chs, us) ==
  IF messages = <<>> THEN <<>>
  ELSE <<Row(Head(messages), chs, us)>>
         \o messagesToMarkdown(Tail(messages), chs, us)

\* ------------------------------------------------------------------ state
VARIABLES
  options,      \* Log2MdOptions: groupingSameDayByUTC and ignore
  pc,           \* the await at which log2Md (or the convert function it awaits) is suspended
  pending,      \* the file-system operations issued and not yet settled
  error,        \* the rejection of log2Md's promise, NoError while there is none
  channelDirs,  \* log2Md: the result of enumChannelDirs
  chan,         \* log2Md: the position of the for loop in channelDirs
  files,        \* the entries of the channel directory being converted, in readdir order,
                \* each with the messages read from it so far
  filePaths,    \* convert*: the paths of the message files
  fidx,         \* convert*: the position of the loop over filePaths
  logs,         \* convertChannelMessagesSameDay: the Map date -> messages, in insertion order
  lidx,         \* convertChannelMessagesSameDay: the position of the loop over logs.keys()
  logNames,     \* convertChannelMessagesSameDay: the names of the documents written
  indexMd,      \* convert*: the links of the index written so far, one line each
  writes,       \* the writes completed so far for the channel, in order
  mkdirs,       \* the destination directories the run has created
  rmessages,    \* messagesToMarkdown called on its own: its argument messages
  rmd           \* messagesToMarkdown called on its own: its result

vars ==
  <<options, pc, pending, error, channelDirs, chan, files, filePaths, fidx,
    logs, lidx, logNames, indexMd, writes, mkdirs, rmessages, rmd>>

renderVars == <<rmessages, rmd>>

NoError == [kind |-> "none", path |-> <<>>]

InputDir == <<"i">>
OutputDir == <<"o">>
ChannelsJson == <<"c", "h", "a", "n", "n", "e", "l", "s", ".", "j", "s", "o", "n">>
UsersJson == <<"u", "s", "e", "r", "s", ".", "j", "s", "o", "n">>
IndexMdName == <<"i", "n", "d", "e", "x", ".", "m", "d">>

\* the items a channel directory may hold: two dated logs, one of them a
\* second export of the same day, a log named index, and a file that is no log
Items ==
  { <<"2", "0", "1", "9", "-", "1", "0", "-", "3", "1">> \o DotJson,
    <<"2", "0", "1", "9", "-", "1", "0", "-", "3", "1", "-", "2">> \o DotJson,
    <<"i", "n", "d", "e", "x">> \o DotJson,
    <<"n", "o", "t", "e", "s">> }

\* the messages a log may hold: 2019-10-31 01:43 by U1, a channel join at
\* 2019-10-31 23:59 by U2, a bot message at 2019-11-01 00:02 by U9
Messages ==
  { [userID |-> U1, timeStamp |-> 1572486180, text |-> <<"h", "i">>,
     subtype |-> NoSubtype],
    [userID |-> U2, timeStamp |-> 1572566340, text |-> <<"<", "@", "U", "2", ">">>,
     subtype |-> ChannelJoin],
    [userID |-> U9, timeStamp |-> 1572566520, text |-> <<"o", "k">>,
     subtype |-> BotMessage] }

RECURSIVE SeqsUpTo(_, _)
SeqsUpTo(S, n) ==
  IF n = 0 THEN {<<>>}
  ELSE LET shorter == SeqsUpTo(S, n - 1)
       IN shorter \cup {Append(q, x) : q \in {r \in shorter : Len(r) = n - 1}, x \in S}

NoRepeat(q) == \A i, j \in 1..Len(q) : i # j => q[i] # q[j]

\* the items readdir may return for a channel directory: up to n items of
\* distinct names, in any order; the messages of an item are those the run
\* has read from it, none before it is read
RECURSIVE Listings(_)
Listings(n) ==
  IF n = 0 THEN {<<>>}
  ELSE {<<>>} \cup
       { <<[name |-> it, messages |-> <<>>]>> \o l : it \in Items, l \in Listings(n - 1) }

DirListings == {l \in Listings(MaxFiles) : NoRepeat(l)}

\* the number of messages in the entries of a directory
RECURSIVE MessageCount(_)
MessageCount(entries) ==
  IF entries = <<>> THEN 0
  ELSE Len(Head(entries).messages) + MessageCount(Tail(entries))

\* the arrays a message file may hold when the entries read so far hold
\* what they hold: the files of a channel hold up to MaxMsgs messages in all
FileContents(entries) == SeqsUpTo(Messages, MaxMsgs - MessageCount(entries))

\* the destination directories that exist before the run
ExistingDest == {Join(OutputDir, <<"r">>)}

IgnoreOptions ==
  { [present |-> FALSE, channelLogin |-> FALSE],
    [present |-> TRUE, channelLogin |-> FALSE],
    [present |-> TRUE, channelLogin |-> TRUE] }

\* ------------------------------------------------------------- operations
\* checkIgnoreOption: options.ignore may be absent
checkIgnoreOption(ignore) ==
  IF ignore.present THEN [channelLogin |-> ignore.channelLogin]
  ELSE [channelLogin |-> FALSE]

\* isIgnore dropping every message that has a subtype
isIgnoreAnySubtype(message, ignore) ==
  IF ignore.channelLogin THEN message.subtype # NoSubtype ELSE FALSE

isIgnore(message, ignore) ==
  IF ignore.channelLogin THEN message.subtype = ChannelJoin ELSE FALSE

\* messages.filter((message) => !isIgnore(message, ignore))
RECURSIVE FilterIgnored(_, _)
FilterIgnored(messages, ignore) ==
  IF messages = <<>> THEN <<>>
  ELSE (IF isIgnore(Head(messages), ignore) THEN <<>> ELSE <<Head(messages)>>)
         \o FilterIgnored(Tail(messages), ignore)

\* enumMessageJSONs: the paths of the items that end with .json, in readdir order
RECURSIVE enumMessageJSONs(_, _)
enumMessageJSONs(dir, entries) ==
  IF entries = <<>> THEN <<>>
  ELSE (IF EndsWith(Head(entries).name, DotJson)
        THEN <<Join(dir, Head(entries).name)>> ELSE <<>>)
         \o enumMessageJSONs(dir, Tail(entries))

\* the entry of a path of the directory
EntryOf(dir, entries, filePath) ==
  CHOOSE k \in 1..Len(entries) : Join(dir, entries[k].name) = filePath

\* readMessages(filePath): the messages read from the entry of that path
readMessages(dir, entries, filePath) == entries[EntryOf(dir, entries, filePath)].messages

\* `# ${logName}\n\n${table}`
Markdown(logName, table) == <<<<"#", " ">> \o logName, <<>>>> \o table

\* `- [${logName}](./${logName}.md)\n`
IndexLink(logName) ==
  <<"-", " ", "[">> \o logName \o <<"]", "(", ".", "/">> \o logName \o DotMd \o <<")">>

\* `# ${path.basename(src)}\n\n${indexMd}`
IndexDocument(src, links) == <<<<"#", " ">> \o Basename(src), <<>>>> \o links

Src == channelDirs[chan]
Dest == Join(OutputDir, Basename(Src))
Ignore == checkIgnoreOption(options.ignore)

\* the operations of fs the run issues; a write carries the statement that
\* issued it (site): the write of a log document or the write of the index
ReadOp(path) == [kind |-> "read", path |-> path, data |-> <<>>, site |-> "read"]
EnumOp(path) == [kind |-> "readdir", path |-> path, data |-> <<>>, site |-> "readdir"]
MkdirOp(path) == [kind |-> "mkdir", path |-> path, data |-> <<>>, site |-> "mkdir"]
WriteLogOp(path, data) == [kind |-> "write", path |-> path, data |-> data, site |-> "log"]
WriteIndexOp(path, data) ==
  [kind |-> "write", path |-> path, data |-> data, site |-> "index"]

\* await: the function resumes when the operation it awaits has settled
AwaitDone == pending = {}

\* issuing a file-system operation: it is pending until it settles
Issue(op) == pending' = pending \cup {op}

\* the lists enumChannelDirs may return: the first directories of the
\* workspace, in readdir order
WorkspaceDirs == <<Join(InputDir, <<"g">>), Join(InputDir, <<"r">>)>>
Min(a, b) == IF a < b THEN a ELSE b
ChannelDirLists ==
  { SubSeq(WorkspaceDirs, 1, n) : n \in 0..Min(MaxChannels, Len(WorkspaceDirs)) }

\* log2Md, the head of its for loop: the end of the run, or the call of
\* the convert function for channelDirs[k], which runs to its first await
\* (the mkdir of a destination that does not exist, else the readdir)
BeginChannel(dirs, k) ==
  /\ chan' = k
  /\ files' = <<>> /\ filePaths' = <<>> /\ fidx' = 0
  /\ logs' = <<>> /\ lidx' = 0 /\ logNames' = <<>> /\ indexMd' = <<>>
  /\ writes' = <<>>
  /\ IF k > Len(dirs)
     THEN pc' = "done" /\ pending' = pending
     ELSE IF Join(OutputDir, Basename(dirs[k])) \in ExistingDest
     THEN Issue(EnumOp(dirs[k])) /\ pc' = "enumMessageJSONs"
     ELSE Issue(MkdirOp(Join(OutputDir, Basename(dirs[k])))) /\ pc' = "mkdir"

\* the fragments of the bodies messagesToMarkdown is called with: mentions
\* of U1, U2 and of the unknown U9, references to C1 and to the unknown C9,
\* a line break, plain text, and the two halves of a token
Pieces ==
  { <<"<", "@", "U", "1", ">">>, <<"<", "@", "U", "2", ">">>,
    <<"<", "@", "U", "9", ">">>, <<"<", "#", "C", "1", ">">>,
    <<"<", "#", "C", "9", ">">>, <<"\n">>, <<"x">>, <<"<", "@">>, <<">">> }

\* the bodies of k fragments
RECURSIVE Texts(_)
Texts(k) ==
  IF k = 0 THEN {<<>>} ELSE {t \o p : t \in Texts(k - 1), p \in Pieces}

\* the shapes of the argument lists of messagesToMarkdown of size up to n:
\* the number of fragments of each message, the size of a list being the
\* number of its messages plus the number of their fragments
RECURSIVE Shapes(_)
Shapes(n) ==
  IF n = 0 THEN {<<>>}
  ELSE {<<>>} \cup UNION { {<<k>> \o rest : rest \in Shapes(n - 1 - k)} : k \in 0..(n - 1) }

\* the argument lists of a shape
RECURSIVE RenderLists(_)
RenderLists(shape) ==
  IF shape = <<>> THEN {<<>>}
  ELSE { <<[userID |-> u, timeStamp |-> 1572486180, text |-> t,
            subtype |-> NoSubtype]>> \o rest :
           u \in {U1, U2, U9}, t \in Texts(Head(shape)), rest \in RenderLists(Tail(shape)) }

\* a run of log2Md
InitLog2Md ==
  /\ options \in [groupingSameDayByUTC : BOOLEAN, ignore : IgnoreOptions]
  /\ pc = "start"
  /\ rmessages = <<>>

\* a call of messagesToMarkdown, the export of its module
InitMarkdown ==
  /\ options = [groupingSameDayByUTC |-> FALSE,
                ignore |-> [present |-> FALSE, channelLogin |-> FALSE]]
  /\ pc = "markdown"
  /\ \E shape \in Shapes(MaxRenderSize) : rmessages \in RenderLists(shape)

Init ==
  /\ InitLog2Md \/ InitMarkdown
  /\ rmd = <<>>
  /\ pending = {}
  /\ error = NoError
  /\ channelDirs = <<>>
  /\ chan = 0
  /\ files = <<>> /\ filePaths = <<>> /\ fidx = 0
  /\ logs = <<>> /\ lidx = 0 /\ logNames = <<>> /\ indexMd = <<>>
  /\ writes = <<>>
  /\ mkdirs = {}

\* messagesToMarkdown(messages, channels, users) returns
CallMarkdown ==
  /\ pc = "markdown"
  /\ rmd' = messagesToMarkdown(rmessages, channels, users)
  /\ pc' = "markdownReturned"
  /\ UNCHANGED <<options, pending, error, channelDirs, chan, files, filePaths, fidx,
                 logs, lidx, logNames, indexMd, writes, mkdirs, rmessages>>

\* log2Md up to `await readChannels(inputDir)`
Start ==
  /\ pc = "start"
  /\ Issue(ReadOp(Join(InputDir, ChannelsJson)))
  /\ pc' = "readChannels"
  /\ UNCHANGED <<options, error, channelDirs, chan, files, filePaths, fidx, logs,
                 lidx, logNames, indexMd, writes, mkdirs>>
  /\ UNCHANGED renderVars

\* log2Md from readChannels to `await readUsers(inputDir)`
AfterReadChannels ==
  /\ pc = "readChannels" /\ AwaitDone
  /\ Issue(ReadOp(Join(InputDir, UsersJson)))
  /\ pc' = "readUsers"
  /\ UNCHANGED <<options, error, channelDirs, chan, files, filePaths, fidx, logs,
                 lidx, logNames, indexMd, writes, mkdirs>>
  /\ UNCHANGED renderVars

\* log2Md from readUsers to `await enumChannelDirs(inputDir)`
AfterReadUsers ==
  /\ pc = "readUsers" /\ AwaitDone
  /\ Issue(EnumOp(InputDir))
  /\ pc' = "enumChannelDirs"
  /\ UNCHANGED <<options, error, channelDirs, chan, files, filePaths, fidx, logs,
                 lidx, logNames, indexMd, writes, mkdirs>>
  /\ UNCHANGED renderVars

\* log2Md from enumChannelDirs into the first pass of its for loop
AfterEnumChannelDirs ==
  /\ pc = "enumChannelDirs" /\ AwaitDone
  /\ \E d \in ChannelDirLists :
       /\ channelDirs' = d
       /\ BeginChannel(d, 1)
  /\ UNCHANGED <<options, error, mkdirs>>
  /\ UNCHANGED renderVars

\* convert*: from mkdirAsync(dest) to `await enumMessageJSONs(src)`
AfterMkdir ==
  /\ pc = "mkdir" /\ AwaitDone
  /\ Issue(EnumOp(Src))
  /\ pc' = "enumMessageJSONs"
  /\ UNCHANGED <<options, error, channelDirs, chan, files, filePaths, fidx, logs,
                 lidx, logNames, indexMd, writes, mkdirs>>
  /\ UNCHANGED renderVars

\* NextFile without the test `indexMd !== ''`
NextFileAlwaysIndex(paths, i, index) ==
  /\ fidx' = i
  /\ indexMd' = index
  /\ IF i <= Len(paths)
     THEN Issue(ReadOp(paths[i])) /\ pc' = "readMessages"
     ELSE /\ Issue(WriteIndexOp(Join(Dest, IndexMdName), IndexDocument(Src, index)))
          /\ pc' = "writeIndex"

\* convertChannelMessages, the head of its for loop with the index built so
\* far: the read of the next file, or after the last one the write of a
\* non-empty index, or the return
NextFile(paths, i, index) ==
  /\ fidx' = i
  /\ indexMd' = index
  /\ IF i <= Len(paths)
     THEN Issue(ReadOp(paths[i])) /\ pc' = "readMessages"
     ELSE IF index # <<>>
     THEN /\ Issue(WriteIndexOp(Join(Dest, IndexMdName), IndexDocument(Src, index)))
          /\ pc' = "writeIndex"
     ELSE pc' = "returned" /\ pending' = pending

\* convertChannelMessages: the paths sorted in descending order, then the loop
AfterEnumMessageJSONs ==
  /\ pc = "enumMessageJSONs" /\ AwaitDone
  /\ ~options.groupingSameDayByUTC
  /\ \E l \in DirListings :
       /\ files' = l
       /\ filePaths' = SortDesc(enumMessageJSONs(Src, l))
       /\ NextFile(SortDesc(enumMessageJSONs(Src, l)), 1, <<>>)
  /\ UNCHANGED <<options, error, channelDirs, chan, logs, lidx, logNames,
                 writes, mkdirs>>
  /\ UNCHANGED renderVars

\* convertChannelMessages: the messages of a file read; a file with no
\* message left is skipped, else its document is written
AfterReadMessages ==
  /\ pc = "readMessages" /\ AwaitDone
  /\ ~options.groupingSameDayByUTC
  /\ LET messages == FilterIgnored(readMessages(Src, files, filePaths[fidx]), Ignore)
         logName == BasenameExt(filePaths[fidx], DotJson)
         table == messagesToMarkdown(messages, channels, users)
     IN IF messages = <<>>
        THEN NextFile(filePaths, fidx + 1, indexMd)
        ELSE /\ Issue(WriteLogOp(Join(Dest, logName \o DotMd), Markdown(logName, table)))
             /\ pc' = "writeLog"
             /\ UNCHANGED <<fidx, indexMd>>
  /\ UNCHANGED <<options, error, channelDirs, chan, files, filePaths, logs, lidx,
                 logNames, writes, mkdirs>>
  /\ UNCHANGED renderVars

\* convertChannelMessages: a document written, its link joins the index
AfterWriteLog ==
  /\ pc = "writeLog" /\ AwaitDone
  /\ ~options.groupingSameDayByUTC
  /\ NextFile(filePaths, fidx + 1,
              Append(indexMd, IndexLink(BasenameExt(filePaths[fidx], DotJson))))
  /\ UNCHANGED <<options, error, channelDirs, chan, files, filePaths, logs, lidx,
                 logNames, writes, mkdirs>>
  /\ UNCHANGED renderVars

\* LogsPut with logs.set(date, [message]) for a date that has messages too
LogsPutOverwrite(lg, date, message) ==
  IF \E k \in 1..Len(lg) : lg[k].name = date
  THEN [k \in 1..Len(lg) |->
          IF lg[k].name = date
          THEN [name |-> date, messages |-> <<message>>]
          ELSE lg[k]]
  ELSE Append(lg, [name |-> date, messages |-> <<message>>])

\* logs.get(date) and targets.push(message) or logs.set(date, [message])
LogsPut(lg, date, message) ==
  IF \E k \in 1..Len(lg) : lg[k].name = date
  THEN [k \in 1..Len(lg) |->
          IF lg[k].name = date
          THEN [name |-> date, messages |-> Append(lg[k].messages, message)]
          ELSE lg[k]]
  ELSE Append(lg, [name |-> date, messages |-> <<message>>])

\* convertChannelMessagesSameDay, the inner loop over the messages of a file
RECURSIVE GroupMessages(_, _, _)
GroupMessages(lg, messages, ignore) ==
  IF messages = <<>> THEN lg
  ELSE LET message == Head(messages)
           date == formatDate(tsToDate(message.timeStamp))
       IN GroupMessages(
            IF isIgnore(message, ignore) THEN lg ELSE LogsPut(lg, date, message),
            Tail(messages), ignore)

\* the links of the index, one per name
RECURSIVE IndexLinks(_)
IndexLinks(names) ==
  IF names = <<>> THEN <<>>
  ELSE <<IndexLink(Head(names))>> \o IndexLinks(Tail(names))

\* convertChannelMessagesSameDay, the head of its loop over logs.keys(): the
\* write of the next document, or after the last one the names sorted in
\* descending order and the write of a non-empty index, or the return
NextLog(lg, k, names) ==
  /\ lidx' = k
  /\ logNames' = IF k <= Len(lg) THEN names ELSE SortDesc(names)
  /\ IF k <= Len(lg)
     THEN /\ Issue(WriteLogOp(Join(Dest, lg[k].name \o DotMd),
                     Markdown(lg[k].name,
                              messagesToMarkdown(lg[k].messages, channels, users))))
          /\ pc' = "writeLog"
          /\ indexMd' = <<>>
     ELSE /\ indexMd' = IndexLinks(SortDesc(names))
          /\ IF IndexLinks(SortDesc(names)) # <<>>
             THEN /\ Issue(WriteIndexOp(Join(Dest, IndexMdName),
                             IndexDocument(Src, IndexLinks(SortDesc(names)))))
                  /\ pc' = "writeIndex"
             ELSE pc' = "returned" /\ pending' = pending

\* convertChannelMessagesSameDay, the head of its loop over filePaths
NextFileSameDay(paths, i, lg) ==
  /\ fidx' = i
  /\ logs' = lg
  /\ IF i <= Len(paths)
     THEN /\ Issue(ReadOp(paths[i])) /\ pc' = "readMessages"
          /\ UNCHANGED <<lidx, logNames, indexMd>>
     ELSE NextLog(lg, 1, <<>>)

\* convertChannelMessagesSameDay: the paths in readdir order, then the loop
AfterEnumMessageJSONsSameDay ==
  /\ pc = "enumMessageJSONs" /\ AwaitDone
  /\ options.groupingSameDayByUTC
  /\ \E l \in DirListings :
       /\ files' = l
       /\ filePaths' = enumMessageJSONs(Src, l)
       /\ NextFileSameDay(enumMessageJSONs(Src, l), 1, <<>>)
  /\ UNCHANGED <<options, error, channelDirs, chan, writes, mkdirs>>
  /\ UNCHANGED renderVars

\* convertChannelMessagesSameDay: the messages of a file read and grouped
AfterReadMessagesSameDay ==
  /\ pc = "readMessages" /\ AwaitDone
  /\ options.groupingSameDayByUTC
  /\ NextFileSameDay(filePaths, fidx + 1,
       GroupMessages(logs, readMessages(Src, files, filePaths[fidx]), Ignore))
  /\ UNCHANGED <<options, error, channelDirs, chan, files, filePaths, writes, mkdirs>>
  /\ UNCHANGED renderVars

\* convertChannelMessagesSameDay: a document written, its name is kept
AfterWriteLogSameDay ==
  /\ pc = "writeLog" /\ AwaitDone
  /\ options.groupingSameDayByUTC
  /\ NextLog(logs, lidx + 1, Append(logNames, logs[lidx].name))
  /\ UNCHANGED <<options, error, channelDirs, chan, files, filePaths, fidx, logs,
                 writes, mkdirs>>
  /\ UNCHANGED renderVars

\* convert*: the index written, the function returns
AfterWriteIndex ==
  /\ pc = "writeIndex" /\ AwaitDone
  /\ pc' = "returned"
  /\ UNCHANGED <<options, pending, error, channelDirs, chan, files, filePaths, fidx,
                 logs, lidx, logNames, indexMd, writes, mkdirs>>
  /\ UNCHANGED renderVars

\* log2Md: the convert function it awaited has returned, the for loop goes on
ChannelReturned ==
  /\ pc = "returned" /\ AwaitDone
  /\ BeginChannel(channelDirs, chan + 1)
  /\ UNCHANGED <<options, error, channelDirs, mkdirs>>
  /\ UNCHANGED renderVars

\* the file system settles a pending operation: a write stores its data
\* at its path, a mkdir creates its directory, the read of a message file
\* yields the array the file holds
IOComplete ==
  /\ \E op \in pending :
       /\ pending' = pending \ {op}
       /\ writes' = IF op.kind = "write"
                    THEN Append(writes, [path |-> op.path, data |-> op.data,
                                         site |-> op.site])
                    ELSE writes
       /\ mkdirs' = IF op.kind = "mkdir" THEN mkdirs \cup {op.path} ELSE mkdirs
       /\ IF op.kind = "read" /\ pc = "readMessages"
          THEN \E messages \in FileContents(files) :
                 files' = [files EXCEPT
                             ![EntryOf(Src, files, op.path)].messages = messages]
          ELSE files' = files
  /\ UNCHANGED <<options, pc, error, channelDirs, chan, filePaths, fidx,
                 logs, lidx, logNames, indexMd>>
  /\ UNCHANGED renderVars

\* IOFail with the error caught and the function going on
IOFailSwallowed ==
  /\ \E op \in pending :
       /\ op.kind \in {"read", "write", "mkdir"}
       /\ pending' = pending \ {op}
       /\ error' = [kind |-> op.kind, path |-> op.path]
  /\ UNCHANGED <<options, pc, channelDirs, chan, files, filePaths, fidx, logs, lidx,
                 logNames, indexMd, writes, mkdirs>>
  /\ UNCHANGED renderVars

\* a pending operation fails (a file that does not exist, is no array or
\* holds a malformed record; a write or a mkdir the file system refuses):
\* the await throws, no function on the call stack catches, and the promise
\* of log2Md rejects with that error
IOFail ==
  /\ \E op \in pending :
       /\ op.kind \in {"read", "write", "mkdir"}
       /\ pending' = pending \ {op}
       /\ error' = [kind |-> op.kind, path |-> op.path]
  /\ pc' = "rejected"
  /\ UNCHANGED <<options, channelDirs, chan, files, filePaths, fidx, logs, lidx,
                 logNames, indexMd, writes, mkdirs>>
  /\ UNCHANGED renderVars

Next ==
  \/ Start
  \/ AfterReadChannels
  \/ AfterReadUsers
  \/ AfterEnumChannelDirs
  \/ AfterMkdir
  \/ AfterEnumMessageJSONs
  \/ AfterReadMessages
  \/ AfterWriteLog
  \/ AfterEnumMessageJSONsSameDay
  \/ AfterReadMessagesSameDay
  \/ AfterWriteLogSameDay
  \/ AfterWriteIndex
  \/ ChannelReturned
  \/ IOComplete
  \/ IOFail
  \/ CallMarkdown

Spec == Init /\ [][Next]_vars

\* ------------------------------------------------------------ properties
\* the entries of the channel directory that are message files, and their stems
JsonEntries == {i \in 1..Len(files) : EndsWith(files[i].name, DotJson)}
Stem(i) == SubSeq(files[i].name, 1, Len(files[i].name) - Len(DotJson))

\* the UTC calendar date of a message, YYYY-MM-DD
MessageDate == [m \in Messages |-> formatDate(tsToDate(m.timeStamp))]
UTCDate(m) == MessageDate[m]

\* the ignore policy as the options state it
Dropped(m) ==
  options.ignore.present /\ options.ignore.channelLogin /\ m.subtype = ChannelJoin

\* the group of a message of the file of entry i
GroupOf(i, m) == IF options.groupingSameDayByUTC THEN UTCDate(m) ELSE Stem(i)

\* the occurrences of message m in the files of the channel that belong in group D
Occurrences(m, D) ==
  { <<i, j>> \in JsonEntries \X (1..MaxMsgs) :
      /\ j <= Len(files[i].messages)
      /\ files[i].messages[j] = m
      /\ ~Dropped(m)
      /\ GroupOf(i, m) = D }

\* the completed writes of log documents and of the index, and the group a
\* written document is named after
LogWrites == {k \in 1..Len(writes) : writes[k].site = "log"}
IndexWrites == {k \in 1..Len(writes) : writes[k].site = "index"}
DocName(k) ==
  SubSeq(writes[k].path, Len(Dest) + 2, Len(writes[k].path) - Len(DotMd))
DocsNamed(D) == {k \in LogWrites : DocName(k) = D}

\* the row of each message a log may hold
MessageRow == [m \in Messages |-> Row(m, channels, users)]

\* the lines of a written file that are the row of message m
RowLines(m, k) ==
  {l \in 1..Len(writes[k].data) : writes[k].data[l] = MessageRow[m]}

GroupNames ==
  {DocName(k) : k \in LogWrites} \cup
  {GroupOf(i, files[i].messages[j]) :
     <<i, j>> \in {x \in JsonEntries \X (1..MaxMsgs) : x[2] <= Len(files[x[1]].messages)}}

KeptGroups ==
  { GroupOf(x[1], files[x[1]].messages[x[2]]) :
      x \in { y \in JsonEntries \X (1..MaxMsgs) :
                /\ y[2] <= Len(files[y[1]].messages)
                /\ ~Dropped(files[y[1]].messages[y[2]]) } }

\* the name an index line links to, <<>> if the line is no link
LinkedName(line) ==
  IF \E k \in LogWrites : line = IndexLink(DocName(k))
  THEN DocName(CHOOSE k \in LogWrites : line = IndexLink(DocName(k)))
  ELSE <<>>

\* the lines of a written file after its heading and the blank line
Body(k) == SubSeq(writes[k].data, 3, Len(writes[k].data))

\* C3: no document is written for a group (file or UTC day) that has no
\* message left after the ignore policy, the index has no link for such a
\* group, and no index is written for a channel with no document.
C3_EmptyGroups ==
  LET kept == KeptGroups
  IN /\ \A k \in LogWrites : DocName(k) \in kept
     /\ \A k \in IndexWrites :
          /\ LogWrites # {}
          /\ \A l \in 1..Len(Body(k)) : LinkedName(Body(k)[l]) \in kept
     /\ (pc = "returned" /\ LogWrites = {}) => writes = <<>>

\* C3's case: the channel has a message file, every message of it is
\* dropped, and the conversion returns with nothing written
C3_Witness ==
  /\ pc = "returned"
  /\ writes = <<>>
  /\ \E i \in JsonEntries :
       /\ files[i].messages # <<>>
       /\ \A j \in 1..Len(files[i].messages) : Dropped(files[i].messages[j])

\* C4: a written index has exactly one link per document written for the
\* channel, in strictly descending lexical order of group name, and it is
\* written after all the documents of the channel.
C4_Index ==
  \A k \in IndexWrites :
    /\ k = Len(writes)
    /\ \A n \in 1..(k - 1) : n \in LogWrites
    /\ Len(Body(k)) = Cardinality(LogWrites)
    /\ \A n \in LogWrites : \E l \in 1..Len(Body(k)) : Body(k)[l] = IndexLink(DocName(n))
    /\ \A l \in 1..Len(Body(k)) : \E n \in LogWrites : Body(k)[l] = IndexLink(DocName(n))
    /\ \A a, b \in 1..Len(Body(k)) :
         a < b => StrLess(LinkedName(Body(k)[b]), LinkedName(Body(k)[a]))

TableHeader ==
  <<"|", "T", "i", "m", "e", "|", "I", "c", "o", "n", "|", "N", "a", "m", "e", "|",
    "M", "e", "s", "s", "a", "g", "e", "|">>
TableSeparator ==
  <<"|", "-", "-", "-", "|", "-", "-", "-", "|", "-", "-", "-", "|", "-", "-", "-", "|">>

\* C5: every written document begins with the heading `# <group name>`, a
\* blank line, the line |Time|Icon|Name|Message| and the line
\* |---|---|---|---|, and only then the rows of its messages.
C5_DocumentHeader ==
  \A k \in LogWrites :
    LET doc == writes[k].data
    IN /\ Len(doc) >= 4
       /\ doc[1] = <<"#", " ">> \o DocName(k)
       /\ doc[2] = <<>>
       /\ doc[3] = TableHeader
       /\ doc[4] = TableSeparator
       /\ \A l \in 5..Len(doc) : \E m \in Messages : doc[l] = MessageRow[m]

\* the name a user is displayed by: the display name if there is one
ResolvedName(user) == IF user.displayName # <<>> THEN user.displayName ELSE user.name

\* the mentions of a body as C6 states them
MentionStated(s, us) ==
  [id \in Captures(s) |->
     IF id \in DOMAIN us THEN InlineCode("@", ResolvedName(us[id]))
     ELSE InlineCode("@", id)]

\* the channel references of a body as C7 states them
ChannelStated(s, chs) ==
  [id \in Captures(s) |->
     IF id \in DOMAIN chs THEN InlineCode("#", chs[id].name) ELSE InlineCode("#", id)]

\* C6: in the row of every message, each token <@ID> of the body is replaced
\* by the display name (else the name) of the user ID in inline code, whoever
\* sent the message, and by the raw ID in inline code if ID is no user.
C6_Mentions ==
  pc = "markdownReturned" =>
    \A n \in 1..Len(rmessages) :
      LET m == rmessages[n]
          mentioned == ReplaceAll(m.text, 1, "@", MentionStated(m.text, users))
          referenced ==
            ReplaceAll(mentioned, 1, "#", ChannelReplacement(mentioned, channels))
      IN /\ n <= Len(rmd)
         /\ rmd[n] = RowOf(getMetadata(m, users), ReplaceLineBreaks(referenced))

\* C7: in the row of every message, each token <#ID> of the body is replaced
\* by #name in inline code for the channel ID, and by #ID in inline code if
\* ID is no channel.
C7_ChannelReferences ==
  pc = "markdownReturned" =>
    \A n \in 1..Len(rmessages) :
      LET m == rmessages[n]
          meta == getMetadata(m, users)
          mentioned ==
            ReplaceAll(m.text, 1, "@", MentionReplacement(m.text, meta.username, users))
          referenced == ReplaceAll(mentioned, 1, "#", ChannelStated(mentioned, channels))
      IN /\ n <= Len(rmd)
         /\ rmd[n] = RowOf(meta, ReplaceLineBreaks(referenced))

\* a is b with some elements left out
RECURSIVE IsSubsequence(_, _)
IsSubsequence(a, b) ==
  IF a = <<>> THEN TRUE
  ELSE IF b = <<>> THEN FALSE
  ELSE IF Head(a) = Head(b) THEN IsSubsequence(Tail(a), Tail(b))
  ELSE IsSubsequence(a, Tail(b))

\* the rows of the kept messages of entry i that belong in group D, in the
\* order of the file, from message j on
RECURSIVE FileRows(_, _, _)
FileRows(i, j, D) ==
  IF j > Len(files[i].messages) THEN <<>>
  ELSE LET m == files[i].messages[j]
       IN (IF ~Dropped(m) /\ GroupOf(i, m) = D
           THEN <<MessageRow[m]>> ELSE <<>>) \o FileRows(i, j + 1, D)

\* C8: messagesToMarkdown returns one line per message, the row of the n-th
\* message being the n-th line (no line for no message); and in every
\* written document the rows of the messages of one file are in the order
\* of that file.
C8_RowOrder ==
  /\ pc = "markdownReturned" =>
       /\ Len(rmd) = Len(rmessages)
       /\ \A n \in 1..Len(rmessages) : rmd[n] = Row(rmessages[n], channels, users)
  /\ pc = "returned" =>
       \A k \in LogWrites : \A i \in JsonEntries :
         IsSubsequence(FileRows(i, 1, DocName(k)), Body(k))

\* C8's case: grouped by UTC day, a file holds two different kept messages
\* of one day and both rows are in the document of that day
C8_Witness ==
  /\ pc = "returned"
  /\ options.groupingSameDayByUTC
  /\ \E i \in JsonEntries : \E k \in LogWrites :
       /\ Len(files[i].messages) = 2
       /\ files[i].messages[1] # files[i].messages[2]
       /\ Len(FileRows(i, 1, DocName(k))) = 2
       /\ Len(Body(k)) = 2

\* the paths an operation of the channel being converted may have
UnderCurrentChannel(op) ==
  /\ chan \in 1..Len(channelDirs)
  /\ \/ op.kind \in {"write"} /\ SubSeq(op.path, 1, Len(Dest) + 1) = Dest \o <<"/">>
     \/ op.kind = "mkdir" /\ op.path = Dest
     \/ op.kind = "read" /\ SubSeq(op.path, 1, Len(Src) + 1) = Src \o <<"/">>
     \/ op.kind = "readdir" /\ op.path = Src

\* C9: at most one file-system operation is pending, a pending operation of
\* a channel belongs to the channel being converted (the one before it has
\* returned, its index written), and no destination path is written twice.
C9_Sequential ==
  /\ Cardinality(pending) <= 1
  /\ \A op \in pending : chan >= 1 => UnderCurrentChannel(op)
  /\ \A a, b \in 1..Len(writes) : a # b => writes[a].path # writes[b].path

\* C10: the error of the first failed operation is the rejection of log2Md,
\* nothing is pending and nothing changes after it (no read, no write, no
\* directory, no further channel, no retry, what was written stays), and a
\* failed read of channels.json or users.json comes before any directory or
\* document.
C10_State ==
  error # NoError =>
    /\ pending = {}
    /\ pc = "rejected"
    /\ error.path \in {Join(InputDir, ChannelsJson), Join(InputDir, UsersJson)} =>
         mkdirs = {} /\ writes = <<>> /\ chan = 0

C10_Step ==
  /\ error # NoError => UNCHANGED vars
  /\ (error = NoError /\ error' # NoError) =>
       /\ \E op \in pending : error' = [kind |-> op.kind, path |-> op.path]
       /\ UNCHANGED <<writes, mkdirs, chan>>

C10_FirstErrorStops == [](C10_State) /\ [][C10_Step]_vars

\* C10's case: a write fails after a document of the channel was written and
\* before the last channel
C10_Witness ==
  /\ error.kind = "write"
  /\ writes # <<>>
  /\ chan < Len(channelDirs)

====
